---- MODULE Spec2Model ----
(***************************************************************************)
(* Model of deezerus.py: fetch_with_retry, get_playlist_ids,               *)
(* create_new_row and create_dataframe.                                    *)
(*                                                                         *)
(* JSON values and DataFrame cells are modelled by their text: an id is    *)
(* "1", "2", ..., Python's None is "None", True is "True" and a cell       *)
(* pandas leaves unfilled is "NaN".  A DataFrame is its set of columns and  *)
(* its sequence of rows, each row a function from the columns to cells;    *)
(* the order of the columns is not kept.                                   *)
(***************************************************************************)
EXTENDS Integers, Sequences, FiniteSets, TLC

VARIABLES
    \* ---- fetch_with_retry's frame
    url,            \* the endpoint of the running call
    max_retries,    \* its max_retries argument
    attempt,        \* iterations of the for loop finished so far
    requests,       \* requests.get calls made by the running call
    sleeps,         \* time.sleep calls made by the running call
    fetch_state,    \* "idle", "running", "returned" or "raised"
    data,           \* the payload the call returned
    script,         \* the answers the remote gives to the call's requests, in order
    \* ---- get_playlist_ids' frame
    playlist_list,  \* the listing's "data"
    \* ---- create_dataframe's frame
    pc,             \* position in create_dataframe
    full_version,
    df_tracks,      \* [columns, rows]
    playlists,      \* the ids get_playlist_ids returned
    pi,             \* index in playlists of the playlist being processed
    playlist,       \* the playlist payload being processed
    existing_track_ids,
    new_rows,
    ti,             \* index of the next track of the playlist
    error,          \* the exception that ended the run, "none" while there is none
    processed       \* the playlist payloads processed so far, in order

vars == <<url, max_retries, attempt, requests, sleeps, fetch_state, data, script,
          playlist_list, pc, full_version, df_tracks, playlists, pi, playlist,
          existing_track_ids, new_rows, ti, error, processed>>

fetch_vars == <<url, max_retries, attempt, requests, sleeps, fetch_state, data>>

run_vars == <<playlist_list, pc, full_version, df_tracks, playlists, pi, playlist,
              existing_track_ids, new_rows, ti, error, processed>>

--------------------------------------------------------------------------
(* Bounds of the model                                                     *)

MaxTrackId == 2          \* track ids are "1" .. MaxTrackId
MaxTracks == 2           \* tracks listed by one playlist
MaxListing == 2          \* playlists listed for the user in a create_dataframe run
MaxPlaylistId == 2       \* playlist ids are "1" .. MaxPlaylistId
MaxContributors == 1     \* contributors of one track detail payload
MaxRetriesArg == 3       \* max_retries arguments tried on fetch_with_retry alone
MaxOwnerListing == 4     \* listing length tried on get_playlist_ids alone

\* the titles a playlist can have; "artist_1" is also the name of a data column
Titles == {"Favorites", "Workout", "artist_1"}

(* Program constants                                                       *)

QuotaCode == "4"         \* the error code the remote gives for "quota exceeded"
DefaultMaxRetries == 2
COLUMNS_SHORT == {"id", "title", "artist", "album", "duration", "rank"}
COLUMNS_FULL == COLUMNS_SHORT \cup {"release_date", "bpm", "gain"}

RECURSIVE SeqsUpTo(_, _)
SeqsUpTo(S, n) ==
    IF n = 0 THEN {<<>>}
    ELSE LET shorter == SeqsUpTo(S, n - 1)
         IN  shorter \cup {Append(s, x) : s \in {t \in shorter : Len(t) = n - 1}, x \in S}

--------------------------------------------------------------------------
(* Python dicts are functions from keys to values                          *)

EmptyDict == [x \in {} |-> "None"]

\* d.get(k)
Get(d, k) == IF k \in DOMAIN d THEN d[k] ELSE "None"

\* d.get(k1, {}).get(k2)
GetIn(d, k1, k2) == IF k1 \in DOMAIN d THEN Get(d[k1], k2) ELSE "None"

\* d[k] = v
Put(d, k, v) == [x \in (DOMAIN d) \cup {k} |-> IF x = k THEN v ELSE d[x]]

\* d.pop(k, None)
Pop(d, k) == [x \in (DOMAIN d) \ {k} |-> d[x]]

--------------------------------------------------------------------------
(* What the remote service can answer                                      *)

TrackIds == {ToString(n) : n \in 1..MaxTrackId}
PlaylistIds == {ToString(n) : n \in 1..MaxPlaylistId}
Creators == {"A", "B"}
Guest == "guest"

QuotaPayload == [error |-> [code |-> QuotaCode]]
ErrorPayload == [error |-> [code |-> "800"]]

\* one entry of a playlist's track listing
TrackEntry(t) ==
    [id |-> t, title |-> "song" \o t, artist |-> [name |-> "artist" \o t],
     album |-> [title |-> "album" \o t], duration |-> "180", rank |-> "500"]

\* the detail payload of a track
TrackDetail(t, contributors) ==
    [id |-> t, title |-> "song" \o t, artist |-> [name |-> "artist" \o t],
     album |-> [title |-> "album" \o t], duration |-> "180", rank |-> "500",
     release_date |-> "2020", bpm |-> "120", gain |-> "-9",
     contributors |-> contributors]

ContributorLists(t) ==
    SeqsUpTo({[name |-> "artist" \o t], [name |-> Guest]}, MaxContributors)

\* a detail payload one of whose contributors has no "name"
MalformedDetail(t) == TrackDetail(t, <<EmptyDict>>)

TrackPayloads ==
    UNION {{TrackDetail(t, c) : c \in ContributorLists(t)} \cup {MalformedDetail(t)} :
             t \in TrackIds}

\* an entry of a track listing that has no "id"
EntryWithoutId ==
    [title |-> "song", artist |-> [name |-> "artist"], album |-> [title |-> "album"],
     duration |-> "180", rank |-> "500"]

TrackEntries == {TrackEntry(t) : t \in TrackIds} \cup {EntryWithoutId}

PlaylistPayloads ==
    {[title |-> name, tracks |-> [data |-> listing]] :
        name \in Titles, listing \in SeqsUpTo(TrackEntries, MaxTracks)}

ListingsUpTo(n) ==
    SeqsUpTo({[id |-> p, creator |-> [name |-> c]] : p \in PlaylistIds, c \in Creators}, n)

ListingPayloads == {[data |-> l] : l \in ListingsUpTo(MaxListing)}

\* the answers the remote can give to one request for u
RemoteAnswers(u) ==
    {QuotaPayload, ErrorPayload} \cup
    (CASE u.kind = "user" -> ListingPayloads
       [] u.kind = "playlist" -> PlaylistPayloads
       [] u.kind = "track" -> {EmptyDict} \cup TrackPayloads)

--------------------------------------------------------------------------
(* fetch_with_retry                                                        *)

\* as IsQuota, the error's code not looked at
IsQuotaAnyError(d) == "error" \in DOMAIN d

\* "error" in data and data["error"].get("code") == 4
IsQuota(d) == "error" \in DOMAIN d /\ Get(d["error"], "code") = QuotaCode

\* as Attempts, with one iteration more
AttemptsOneMore(n) == n + 1

\* the number of iterations of `for attempt in range(max_retries)`
Attempts(n) == n

NoUrl == [kind |-> "none", id |-> "None"]

\* no call of fetch_with_retry is running
FetchIdle ==
    /\ url' = NoUrl
    /\ max_retries' = 0
    /\ attempt' = 0
    /\ requests' = 0
    /\ sleeps' = 0
    /\ fetch_state' = "idle"
    /\ data' = EmptyDict

\* a call of fetch_with_retry(u, n)
FetchCall(u, n) ==
    /\ url' = u
    /\ max_retries' = n
    /\ attempt' = 0
    /\ requests' = 0
    /\ sleeps' = 0
    /\ fetch_state' = "running"
    /\ data' = EmptyDict

\* as FetchAttempt, retrying until the answer is not the quota error
FetchAttemptUntilAnswered(answer) ==
    /\ fetch_state = "running"
    /\ requests' = requests + 1
    /\ IF IsQuota(answer)
       THEN /\ sleeps' = sleeps + 1
            /\ UNCHANGED <<attempt, fetch_state, data>>
       ELSE /\ fetch_state' = "returned"
            /\ data' = answer
            /\ UNCHANGED <<sleeps, attempt>>
    /\ UNCHANGED <<url, max_retries>>

\* one iteration of the loop: the request, answered by `answer`
FetchAttempt(answer) ==
    /\ fetch_state = "running"
    /\ attempt < Attempts(max_retries)
    /\ requests' = requests + 1
    /\ IF IsQuota(answer)
       THEN /\ sleeps' = sleeps + 1
            /\ attempt' = attempt + 1
            /\ UNCHANGED <<fetch_state, data>>
       ELSE /\ fetch_state' = "returned"
            /\ data' = answer
            /\ UNCHANGED <<sleeps, attempt>>
    /\ UNCHANGED <<url, max_retries>>

\* the loop ran out: raise Exception("Max retries exceeded")
FetchRaise ==
    /\ fetch_state = "running"
    /\ attempt >= Attempts(max_retries)
    /\ fetch_state' = "raised"
    /\ UNCHANGED <<url, max_retries, attempt, requests, sleeps, data>>

--------------------------------------------------------------------------
(* get_playlist_ids                                                        *)

Count(names, x) == Cardinality({k \in DOMAIN names : names[k] = x})

\* as MaxByCount, the counts not looked at
MaxByCountFirst(names) == names[1]

\* as MaxByCount, the last element whose count is the highest
MaxByCountLast(names) ==
    names[CHOOSE k \in DOMAIN names :
            /\ \A j \in DOMAIN names : Count(names, names[j]) <= Count(names, names[k])
            /\ \A j \in (k + 1)..Len(names) : Count(names, names[j]) < Count(names, names[k])]

\* max(names, key=names.count): the first element whose count is the highest
MaxByCount(names) ==
    names[CHOOSE k \in DOMAIN names :
            /\ \A j \in DOMAIN names : Count(names, names[j]) <= Count(names, names[k])
            /\ \A j \in 1..(k - 1) : Count(names, names[j]) < Count(names, names[k])]

CreatorNames(listing) == [k \in DOMAIN listing |-> listing[k]["creator"]["name"]]

\* [playlist["id"] for playlist in listing if playlist["creator"]["name"] == user]
RECURSIVE IdsCreatedBy(_, _)
IdsCreatedBy(listing, user) ==
    IF listing = <<>> THEN <<>>
    ELSE LET rest == IdsCreatedBy(Tail(listing), user)
         IN  IF Head(listing)["creator"]["name"] = user
             THEN <<Head(listing)["id"]>> \o rest
             ELSE rest

get_playlist_ids(listing) == IdsCreatedBy(listing, MaxByCount(CreatorNames(listing)))

--------------------------------------------------------------------------
(* create_new_row                                                          *)

None == EmptyDict

\* for j, artist in enumerate(artists): new_track_info[f'artist_{j+1}'] = artist
RECURSIVE PutArtists(_, _, _)
PutArtists(info, artists, j) ==
    IF j > Len(artists) THEN info
    ELSE PutArtists(Put(info, "artist_" \o ToString(j), artists[j]), artists, j + 1)

\* track_details = track; if full_version: ... if details: track_details = details
TrackDetails(track, full, details) ==
    IF full /\ DOMAIN details # {} THEN details ELSE track

\* track_details.get("contributors", [])
Contributors(track_details) ==
    IF "contributors" \in DOMAIN track_details THEN track_details["contributors"] ELSE <<>>

\* the try block raises: artist["name"] of a contributor that has no "name"
BuildRaises(track, full, details) ==
    /\ full
    /\ \E k \in DOMAIN Contributors(TrackDetails(track, full, details)) :
          "name" \notin DOMAIN Contributors(TrackDetails(track, full, details))[k]

\* the body of create_new_row's try block once the detail fetch has returned
\* details (lines 48 to 75)
BuildRow(track, playlist_title, full, details) ==
    LET track_details == TrackDetails(track, full, details)
        base == [id |-> Get(track_details, "id"),
                 title |-> Get(track_details, "title"),
                 artist |-> GetIn(track_details, "artist", "name"),
                 album |-> GetIn(track_details, "album", "title"),
                 duration |-> Get(track_details, "duration"),
                 rank |-> Get(track_details, "rank")]
        extended == Put(Put(Put(base, "release_date", Get(track_details, "release_date")),
                            "bpm", Get(track_details, "bpm")),
                        "gain", Get(track_details, "gain"))
        contributors == Contributors(track_details)
        artists == [k \in DOMAIN contributors |-> contributors[k]["name"]]
        numbered == PutArtists(extended, artists, 1)
        deduped == IF Get(numbered, "artist") = Get(numbered, "artist_1")
                   THEN Pop(numbered, "artist_1") ELSE numbered
    IN  IF full THEN Put(deduped, playlist_title, "True") ELSE base

\* as create_new_row, a failed detail fetch counting as an empty payload
create_new_row_fallback(track, playlist_title, full, fstate, details) ==
    IF fstate # "raised" /\ BuildRaises(track, full, details) THEN None
    ELSE BuildRow(track, playlist_title, full,
                  IF fstate = "raised" THEN EmptyDict ELSE details)

\* create_new_row(track, playlist_title, full), its detail fetch having ended
\* in state fstate ("returned" or "raised") with payload details: an
\* exception of the fetch or of the try block is caught, logged, and None is
\* returned
create_new_row(track, playlist_title, full, fstate, details) ==
    IF full /\ fstate = "raised" THEN None
    ELSE IF BuildRaises(track, full, details) THEN None
    ELSE BuildRow(track, playlist_title, full, details)

--------------------------------------------------------------------------
(* The DataFrame operations create_dataframe uses                          *)

\* a row or dict widened to the columns cols, unfilled cells NaN
Widen(row, cols) == [c \in cols |-> IF c \in DOMAIN row THEN row[c] ELSE "NaN"]

EmptyFrame(cols) == [columns |-> cols, rows |-> <<>>]

\* set(df['id'])
IdSet(df) == {df.rows[k]["id"] : k \in DOMAIN df.rows}

\* df.loc[df['id'] == tid, column] = True
LocSetTrue(df, tid, column) ==
    LET cols == df.columns \cup {column}
    IN  [columns |-> cols,
         rows |-> [k \in DOMAIN df.rows |->
                     IF df.rows[k]["id"] = tid
                     THEN Put(Widen(df.rows[k], cols), column, "True")
                     ELSE Widen(df.rows[k], cols)]]

\* as Concat, with join="inner": only the columns both frames have are kept
ConcatInner(df, dicts) ==
    LET cols == df.columns \cap UNION {DOMAIN dicts[k] : k \in DOMAIN dicts}
    IN  [columns |-> cols,
         rows |-> [k \in DOMAIN df.rows |-> [c \in cols |-> df.rows[k][c]]]
                  \o [k \in DOMAIN dicts |-> [c \in cols |-> dicts[k][c]]]]

\* pd.concat([df, pd.DataFrame(dicts)], ignore_index=True)
Concat(df, dicts) ==
    LET cols == df.columns \cup UNION {DOMAIN dicts[k] : k \in DOMAIN dicts}
    IN  [columns |-> cols,
         rows |-> [k \in DOMAIN df.rows |-> Widen(df.rows[k], cols)]
                  \o [k \in DOMAIN dicts |-> Widen(dicts[k], cols)]]

--------------------------------------------------------------------------
(* create_dataframe                                                        *)

UserUrl == [kind |-> "user", id |-> "user"]
PlaylistUrl(pid) == [kind |-> "playlist", id |-> pid]
TrackUrl(tid) == [kind |-> "track", id |-> tid]

NoPlaylist == [title |-> "None", tracks |-> [data |-> <<>>]]

\* the frame of create_dataframe before get_playlist_ids has returned
RunStart(full) ==
    /\ full_version = full
    /\ df_tracks = EmptyFrame(IF full THEN COLUMNS_FULL ELSE COLUMNS_SHORT)
    /\ playlist_list = <<>>
    /\ playlists = <<>>
    /\ pi = 1
    /\ playlist = NoPlaylist
    /\ existing_track_ids = {}
    /\ new_rows = <<>>
    /\ ti = 1
    /\ error = "none"
    /\ processed = <<>>

\* an exception leaves create_dataframe
Abort(e) ==
    /\ pc' = "aborted"
    /\ error' = e
    /\ FetchIdle
    /\ UNCHANGED <<script, playlist_list, full_version, df_tracks, playlists, pi,
                   playlist, existing_track_ids, new_rows, ti, processed>>

\* the frame of a caller that is not create_dataframe
NoRun ==
    /\ RunStart(FALSE)
    /\ script = <<>>

\* one request of the running fetch_with_retry call, the remote answering anything
Request ==
    /\ pc \in {"listing", "playlist", "building"}
    /\ \E answer \in RemoteAnswers(url) : FetchAttempt(answer)
    /\ UNCHANGED <<script, run_vars>>

\* the running fetch_with_retry call runs out of attempts
Exhausted ==
    /\ pc \in {"listing", "playlist", "building", "fetch"}
    /\ FetchRaise
    /\ UNCHANGED <<script, run_vars>>

\* get_playlist_ids, from the end of its fetch to its return
GetPlaylistIds ==
    /\ pc = "listing"
    /\ fetch_state \in {"returned", "raised"}
    /\ IF fetch_state = "raised" THEN Abort("MaxRetries")
       ELSE IF "data" \notin DOMAIN data THEN Abort("KeyError")
       ELSE IF data["data"] = <<>> THEN Abort("ValueError")
       ELSE /\ playlist_list' = data["data"]
            /\ playlists' = get_playlist_ids(data["data"])
            /\ pi' = 1
            /\ pc' = "loop"
            /\ FetchIdle
            /\ UNCHANGED <<script, full_version, df_tracks, playlist,
                           existing_track_ids, new_rows, ti, error, processed>>

\* for pid in playlists: the fetch of the next playlist
StartPlaylist ==
    /\ pc = "loop"
    /\ pi <= Len(playlists)
    /\ FetchCall(PlaylistUrl(playlists[pi]), DefaultMaxRetries)
    /\ pc' = "playlist"
    /\ playlist_list' = <<>>
    /\ UNCHANGED <<script, full_version, df_tracks, playlists, pi, playlist,
                   existing_track_ids, new_rows, ti, error, processed>>

\* the playlist's payload has arrived: the log line and the set of known ids
PlaylistFetched ==
    /\ pc = "playlist"
    /\ fetch_state \in {"returned", "raised"}
    /\ IF fetch_state = "raised" THEN Abort("MaxRetries")
       ELSE IF "title" \notin DOMAIN data \/ "tracks" \notin DOMAIN data
       THEN Abort("KeyError")
       ELSE /\ playlist' = data
            /\ existing_track_ids' = IdSet(df_tracks)
            /\ new_rows' = <<>>
            /\ ti' = 1
            /\ pc' = "tracks"
            /\ FetchIdle
            /\ UNCHANGED <<script, playlist_list, full_version, df_tracks, playlists,
                           pi, error, processed>>

Tracks == playlist["tracks"]["data"]

\* the track's id is known: df_tracks.loc[...] = True
KnownTrack ==
    /\ pc = "tracks"
    /\ ti <= Len(Tracks)
    /\ "id" \in DOMAIN Tracks[ti]
    /\ Tracks[ti]["id"] \in existing_track_ids
    /\ df_tracks' = LocSetTrue(df_tracks, Tracks[ti]["id"], playlist["title"])
    /\ ti' = ti + 1
    /\ UNCHANGED <<fetch_vars, script, playlist_list, pc, full_version, playlists, pi,
                   playlist, existing_track_ids, new_rows, error, processed>>

\* track['id'] of an entry that has no "id": the KeyError leaves create_dataframe
TrackWithoutId ==
    /\ pc = "tracks"
    /\ ti <= Len(Tracks)
    /\ "id" \notin DOMAIN Tracks[ti]
    /\ Abort("KeyError")

\* if new_row: new_rows.append(new_row); existing_track_ids.add(track['id'])
Collect(new_row) ==
    /\ new_rows' = IF DOMAIN new_row # {} THEN Append(new_rows, new_row) ELSE new_rows
    /\ existing_track_ids' = IF DOMAIN new_row # {}
                              THEN existing_track_ids \cup {Tracks[ti]["id"]}
                              ELSE existing_track_ids
    /\ ti' = ti + 1

\* the track's id is not known, short version: create_new_row makes no fetch
NewTrackShort ==
    /\ pc = "tracks"
    /\ ti <= Len(Tracks)
    /\ "id" \in DOMAIN Tracks[ti]
    /\ Tracks[ti]["id"] \notin existing_track_ids
    /\ ~full_version
    /\ Collect(create_new_row(Tracks[ti], playlist["title"], FALSE, "idle", EmptyDict))
    /\ UNCHANGED <<fetch_vars, script, playlist_list, pc, full_version, df_tracks,
                   playlists, pi, playlist, error, processed>>

\* as NewTrackFull, the builder called for known ids too
NewTrackFullAlways ==
    /\ pc = "tracks"
    /\ ti <= Len(Tracks)
    /\ "id" \in DOMAIN Tracks[ti]
    /\ full_version
    /\ FetchCall(TrackUrl(Tracks[ti]["id"]), DefaultMaxRetries)
    /\ pc' = "building"
    /\ UNCHANGED <<script, playlist_list, full_version, df_tracks, playlists, pi,
                   playlist, existing_track_ids, new_rows, ti, error, processed>>

\* the track's id is not known, full version: create_new_row fetches the detail
NewTrackFull ==
    /\ pc = "tracks"
    /\ ti <= Len(Tracks)
    /\ "id" \in DOMAIN Tracks[ti]
    /\ Tracks[ti]["id"] \notin existing_track_ids
    /\ full_version
    /\ FetchCall(TrackUrl(Tracks[ti]["id"]), DefaultMaxRetries)
    /\ pc' = "building"
    /\ UNCHANGED <<script, playlist_list, full_version, df_tracks, playlists, pi,
                   playlist, existing_track_ids, new_rows, ti, error, processed>>

\* the detail fetch has ended: the rest of create_new_row, and the row is collected
TrackFetched ==
    /\ pc = "building"
    /\ fetch_state \in {"returned", "raised"}
    /\ Collect(create_new_row(Tracks[ti], playlist["title"], TRUE, fetch_state, data))
    /\ pc' = "tracks"
    /\ FetchIdle
    /\ UNCHANGED <<script, playlist_list, full_version, df_tracks, playlists, pi,
                   playlist, error, processed>>

\* the playlist's tracks are done: the new rows are merged into the table
MergePlaylist ==
    /\ pc = "tracks"
    /\ ti > Len(Tracks)
    /\ df_tracks' = IF new_rows # <<>> THEN Concat(df_tracks, new_rows) ELSE df_tracks
    /\ processed' = Append(processed, playlist)
    /\ pi' = pi + 1
    /\ pc' = "loop"
    /\ UNCHANGED <<fetch_vars, script, playlist_list, full_version, playlists, playlist,
                   existing_track_ids, new_rows, ti, error>>

\* return df_tracks
Return ==
    /\ pc = "loop"
    /\ pi > Len(playlists)
    /\ pc' = "done"
    /\ playlist_list' = <<>>
    /\ UNCHANGED <<fetch_vars, script, full_version, df_tracks, playlists, pi, playlist,
                   existing_track_ids, new_rows, ti, error, processed>>

\* create_dataframe(user_id, full_version) has called get_playlist_ids, which has
\* called fetch_with_retry
Init ==
    /\ \E full \in BOOLEAN : RunStart(full)
    /\ pc = "listing"
    /\ url = UserUrl
    /\ max_retries = DefaultMaxRetries
    /\ attempt = 0
    /\ requests = 0
    /\ sleeps = 0
    /\ fetch_state = "running"
    /\ data = EmptyDict
    /\ script = <<>>

Next ==
    \/ Request
    \/ Exhausted
    \/ GetPlaylistIds
    \/ StartPlaylist
    \/ PlaylistFetched
    \/ KnownTrack
    \/ TrackWithoutId
    \/ NewTrackShort
    \/ NewTrackFull
    \/ TrackFetched
    \/ MergePlaylist
    \/ Return

Spec == Init /\ [][Next]_vars

--------------------------------------------------------------------------
(* fetch_with_retry alone, against a remote whose answers are scripted     *)

ScriptAnswers == {QuotaPayload, ErrorPayload, EmptyDict, [data |-> <<>>]}

Scripts == {s \in SeqsUpTo(ScriptAnswers, MaxRetriesArg + 1) : Len(s) = MaxRetriesArg + 1}

\* one request of the call, answered by the script
ScriptedRequest ==
    /\ pc = "fetch"
    /\ requests < Len(script)
    /\ FetchAttempt(script[requests + 1])
    /\ UNCHANGED <<script, run_vars>>

InitFetch ==
    /\ RunStart(FALSE)
    /\ pc = "fetch"
    /\ url = UserUrl
    /\ max_retries \in 0..MaxRetriesArg
    /\ attempt = 0
    /\ requests = 0
    /\ sleeps = 0
    /\ fetch_state = "running"
    /\ data = EmptyDict
    /\ script \in Scripts

NextFetch ==
    \/ ScriptedRequest
    \/ Exhausted

SpecFetch == InitFetch /\ [][NextFetch]_vars

--------------------------------------------------------------------------
(* get_playlist_ids alone, on the listings its fetch can return            *)

InitOwner ==
    /\ NoRun
    /\ pc = "listing"
    /\ url = UserUrl
    /\ max_retries = DefaultMaxRetries
    /\ attempt = 0
    /\ requests = 1
    /\ sleeps = 0
    /\ fetch_state = "returned"
    /\ data \in {[data |-> l] : l \in ListingsUpTo(MaxOwnerListing)}

NextOwner == GetPlaylistIds

SpecOwner == InitOwner /\ [][NextOwner]_vars

--------------------------------------------------------------------------
(* Properties of create_dataframe (Spec)                                   *)

Rows == df_tracks.rows

\* the ids a playlist payload lists
ListedIds(p) == {p["tracks"]["data"][k]["id"] : k \in DOMAIN p["tracks"]["data"]}

\* the row's column named after the playlist is true
Member(row, p) == p["title"] \in DOMAIN row /\ row[p["title"]] = "True"

\* C1: the returned table never holds two rows with the same id.
C1_UniqueIds ==
    pc = "done" =>
        \A a, b \in DOMAIN Rows : a # b => Rows[a]["id"] # Rows[b]["id"]

\* C2: in the returned table, the row of a track is true in the column of every
\* processed playlist that lists the track, the first one included.
C2_MemberOfEveryListingPlaylist ==
    pc = "done" =>
        \A a \in DOMAIN Rows : \A k \in DOMAIN processed :
            Rows[a]["id"] \in ListedIds(processed[k]) => Member(Rows[a], processed[k])

\* C3: every row of the table has at least one membership column set to true.
C3_SomeMembership ==
    \A a \in DOMAIN Rows :
        \E c \in Titles : c \in DOMAIN Rows[a] /\ Rows[a][c] = "True"

DataColumns == COLUMNS_FULL \cup {"artist_" \o ToString(j) : j \in 1..(MaxContributors + 1)}

DistinctPlainTitles ==
    /\ \A j, k \in DOMAIN processed : j # k => processed[j]["title"] # processed[k]["title"]
    /\ \A k \in DOMAIN processed : processed[k]["title"] \notin DataColumns

\* C4: with pairwise distinct playlist titles that are no data column names, a
\* row of the returned table is true in a playlist's column only if the
\* playlist lists the row's track.
C4_MemberOnlyIfListed ==
    (pc = "done" /\ DistinctPlainTitles) =>
        \A a \in DOMAIN Rows : \A k \in DOMAIN processed :
            Member(Rows[a], processed[k]) => Rows[a]["id"] \in ListedIds(processed[k])

\* C8: whenever a fetch_with_retry call of the run exhausts its retries, for the
\* listing, a playlist or a track detail, create_dataframe aborts with that
\* error and returns no table.
C8_ExhaustionAbortsRun ==
    [][fetch_state = "raised" => (pc' = "aborted" /\ error' = "MaxRetries")]_vars

\* C8, amended: exhaustion on the listing or on a playlist aborts the run with
\* that error, and an aborted run returns no table; exhaustion on a track detail
\* is caught by create_new_row: the track gets no row, its id is not added to
\* the known ids, and the run goes on with the next track.
C8_ExhaustionAbortsUnlessTrackDetail ==
    [][ /\ (fetch_state = "raised" /\ pc \in {"listing", "playlist"})
           => (pc' = "aborted" /\ error' = "MaxRetries")
        /\ (fetch_state = "raised" /\ pc = "building")
           => /\ pc' = "tracks"
              /\ error' = "none"
              /\ ti' = ti + 1
              /\ new_rows' = new_rows
              /\ existing_track_ids' = existing_track_ids
              /\ df_tracks' = df_tracks
        /\ pc = "aborted" => pc' = "aborted" ]_vars

\* the second playlist's fetch was exhausted after a first playlist of which
\* every track detail fetch was exhausted
C8_Witness ==
    /\ pc = "aborted"
    /\ error = "MaxRetries"
    /\ full_version
    /\ Len(processed) = 1
    /\ ListedIds(processed[1]) # {}
    /\ Rows = <<>>

\* building the row of the current track fails: the entry has no id, the detail
\* fetch raised, it returned an error payload, or its payload is malformed
TrackFailure ==
    \/ pc = "tracks" /\ ti <= Len(Tracks) /\ "id" \notin DOMAIN Tracks[ti]
    \/ pc = "building" /\ fetch_state = "raised"
    \/ pc = "building" /\ fetch_state = "returned" /\ "error" \in DOMAIN data
    \/ /\ pc = "building" /\ fetch_state = "returned"
       /\ "contributors" \in DOMAIN data
       /\ \E k \in DOMAIN data["contributors"] : "name" \notin DOMAIN data["contributors"][k]

\* C11: on any failure while building one track the builder yields None: no row
\* is added for the track, the run is not aborted, and it goes on with the
\* next track.
C11_FailedTrackIsSkipped ==
    [][TrackFailure => /\ pc' = "tracks"
                       /\ error' = "none"
                       /\ ti' = ti + 1
                       /\ new_rows' = new_rows
                       /\ df_tracks' = df_tracks]_vars

\* the run is processing, for the second time in a row, the one playlist
\* processed so far
Reingesting ==
    /\ pc \in {"tracks", "building"}
    /\ Len(processed) = 1
    /\ playlist = processed[1]

\* C12: processing a playlist sequence and then the same playlists a second
\* time yields the same table as processing the sequence once: with the
\* one-playlist sequence, no step of the second pass changes the rows, the
\* set of columns or a cell value.
C12_ReingestionIdempotent ==
    [][Reingesting => df_tracks' = df_tracks]_vars

\* the detail fetch of the current track has returned a payload with at least
\* one contributor, each of them named
DetailWithContributors ==
    /\ pc = "building"
    /\ fetch_state = "returned"
    /\ "contributors" \in DOMAIN data
    /\ Len(data["contributors"]) >= 1
    /\ \A k \in DOMAIN data["contributors"] : "name" \in DOMAIN data["contributors"][k]

\* C13: in full mode, for a detail payload with N >= 1 contributors, the record
\* built stores contributor k in field artist_k; if the first contributor's
\* name equals the primary artist, the record has no artist_1 field and
\* artist_2..artist_N keep their numbers; otherwise artist_1..artist_N are
\* all present.
C13_ContributorFields ==
    [][DetailWithContributors =>
         /\ Len(new_rows') = Len(new_rows) + 1
         /\ LET record == new_rows'[Len(new_rows')]
                contributors == data["contributors"]
            IN  \A k \in DOMAIN contributors :
                   IF k = 1 /\ contributors[1]["name"] = record["artist"]
                   THEN "artist_1" \notin DOMAIN record
                   ELSE /\ ("artist_" \o ToString(k)) \in DOMAIN record
                        /\ record["artist_" \o ToString(k)] = contributors[k]["name"]]_vars

\* C14: during one run the table's set of columns only grows and its row
\* count never decreases: every column present before a step of the run is
\* present after it, so every column present after playlist k is present
\* after playlist k+1.
C14_ColumnsAndRowsOnlyGrow ==
    [][/\ df_tracks.columns \subseteq df_tracks'.columns
       /\ Len(df_tracks.rows) <= Len(df_tracks'.rows)]_vars

\* two playlists have been merged, the second one adding a column and a row
C14_Witness ==
    /\ pc = "done"
    /\ Len(processed) = 2
    /\ processed[1]["title"] # processed[2]["title"]
    /\ {processed[1]["title"], processed[2]["title"]} \subseteq df_tracks.columns
    /\ Len(df_tracks.rows) = 2

\* the data fields of the run's mode
DataFields == IF full_version THEN DataColumns ELSE COLUMNS_SHORT

\* C15: processing a later playlist leaves the data fields of every existing
\* row unchanged and deletes no row, whatever the playlist's title.
C15_ExistingRowsKeepData ==
    [][/\ Len(df_tracks.rows) <= Len(df_tracks'.rows)
       /\ \A k \in DOMAIN df_tracks.rows : \A c \in DataFields \cap df_tracks.columns :
             df_tracks'.rows[k][c] = df_tracks.rows[k][c]]_vars

\* the current track entry has an id that is in the known-id set
CurrentTrackKnown ==
    /\ pc = "tracks"
    /\ ti <= Len(Tracks)
    /\ "id" \in DOMAIN Tracks[ti]
    /\ Tracks[ti]["id"] \in existing_track_ids

\* C16: a track-detail fetch is issued only in full mode and only for the
\* current track, whose id is not in the known-id set; a track whose id is
\* known causes no builder call (no row is collected) and no fetch.
C16_DetailFetchOnlyFullAndUnknown ==
    [][/\ url'["kind"] = "track" =>
             /\ full_version'
             /\ pc' = "building"
             /\ url'["id"] = playlist'["tracks"]["data"][ti']["id"]
             /\ url'["id"] \notin existing_track_ids'
       /\ CurrentTrackKnown =>
             /\ new_rows' = new_rows
             /\ url'["kind"] # "track"
             /\ fetch_state' = "idle"
             /\ requests' = 0]_vars

\* in the second playlist the first track was known and skipped, and the
\* detail of the second, unknown one has been requested
C16_Witness ==
    /\ pc = "building"
    /\ url["kind"] = "track"
    /\ requests = 1
    /\ Len(processed) = 1
    /\ ti = 2
    /\ Tracks[1]["id"] \in existing_track_ids

\* the steps the running fetch_with_retry call can still take
FetchSteps == IF fetch_state = "running" THEN (max_retries - attempt) + 1 ELSE 0

\* the most steps one track and one playlist can take
TrackSteps == DefaultMaxRetries + 3
PlaylistSteps == MaxTracks * TrackSteps + DefaultMaxRetries + 4

\* an upper bound of the number of steps the run can still take
StepsLeft ==
    CASE pc = "listing" -> FetchSteps + MaxListing * PlaylistSteps + 2
      [] pc = "loop" -> (Len(playlists) - pi + 1) * PlaylistSteps + 1
      [] pc = "playlist" ->
            FetchSteps + MaxTracks * TrackSteps + (Len(playlists) - pi) * PlaylistSteps + 3
      [] pc = "tracks" ->
            (Len(Tracks) - ti + 1) * TrackSteps + (Len(playlists) - pi) * PlaylistSteps + 2
      [] pc = "building" ->
            FetchSteps + (Len(Tracks) - ti) * TrackSteps
                + (Len(playlists) - pi) * PlaylistSteps + 3
      [] OTHER -> 0

Ended == pc = "done" \/ (pc = "aborted" /\ error # "none")

\* the guard of some action holds: a fetch that is awaited is running (Request
\* or Exhausted) or has ended (GetPlaylistIds, PlaylistFetched,
\* TrackFetched); the loop over the playlists goes on or returns; the loop
\* over the tracks takes the next entry or merges
CanStep ==
    \/ pc \in {"listing", "playlist", "building"} /\ fetch_state # "idle"
    \/ pc = "loop"
    \/ pc = "tracks"

\* C18: every run terminates, whatever the remote answers: each
\* fetch_with_retry call makes at most max_retries requests, every step of
\* the run lowers a natural number, and the run has a next step until it has
\* returned the table or failed with an error.
C18_RunTerminates ==
    /\ [](requests <= max_retries)
    /\ [](StepsLeft \in Nat)
    /\ [][StepsLeft' < StepsLeft]_vars
    /\ [](Ended \/ CanStep)

\* a run has returned the table of two playlists
C18_Witness ==
    /\ pc = "done"
    /\ full_version
    /\ Len(processed) = 2
    /\ Len(df_tracks.rows) = 2

\* C19: the known-id set and the table agree: whenever create_dataframe adds
\* the id of a track entry to the known-id set, the row appended for it
\* carries that same id.
C19_RowCarriesKnownId ==
    [][(pc \in {"tracks", "building"} /\ existing_track_ids' # existing_track_ids) =>
         /\ existing_track_ids' = existing_track_ids \cup {Tracks[ti]["id"]}
         /\ Len(new_rows') = Len(new_rows) + 1
         /\ new_rows'[Len(new_rows')]["id"] = Tracks[ti]["id"]]_vars

--------------------------------------------------------------------------
(* Properties of fetch_with_retry (SpecFetch)                              *)

\* the remote's quota-exceeded answer
QuotaShape(p) == p = QuotaPayload

FetchEnded == pc = "fetch" /\ fetch_state \in {"returned", "raised"}

\* C5: with max_retries = N the call makes up to N + 1 requests before it fails
\* (it fails only after N + 1 quota-exceeded answers), and with the default
\* N = 2 the answers quota-exceeded, quota-exceeded, normal payload make it
\* return the normal payload.
C5_RetriesAfterFirstAttempt ==
    /\ (pc = "fetch" /\ max_retries >= 1 /\ fetch_state = "raised")
       => requests = max_retries + 1
    /\ ( /\ FetchEnded
         /\ max_retries = DefaultMaxRetries
         /\ QuotaShape(script[1]) /\ QuotaShape(script[2]) /\ ~QuotaShape(script[3]) )
       => (fetch_state = "returned" /\ data = script[3])

\* C6: for max_retries >= 1 and a remote that always answers quota-exceeded, the
\* call sleeps exactly max_retries times, returns no payload and raises.
C6_ExhaustionAfterMaxRetriesSleeps ==
    ( /\ pc = "fetch"
      /\ max_retries >= 1
      /\ \A k \in DOMAIN script : QuotaShape(script[k]) )
    => /\ sleeps <= max_retries
       /\ fetch_state # "returned"
       /\ data = EmptyDict
       /\ fetch_state = "raised" => sleeps = max_retries
       /\ (fetch_state = "running" /\ sleeps = max_retries) => ENABLED FetchRaise

C6_Witness ==
    /\ pc = "fetch"
    /\ max_retries = MaxRetriesArg
    /\ \A k \in DOMAIN script : QuotaShape(script[k])
    /\ fetch_state = "raised"
    /\ sleeps = MaxRetriesArg

\* C7: for max_retries >= 1 and a remote that answers quota-exceeded and then a
\* normal payload, the call returns that payload after exactly one sleep.
C7_ReturnsAfterOneSleep ==
    ( /\ FetchEnded
      /\ max_retries >= 1
      /\ QuotaShape(script[1]) /\ ~QuotaShape(script[2]) )
    => (fetch_state = "returned" /\ data = script[2] /\ sleeps = 1)

\* C9: an answer that is not the quota-exceeded shape (an error of another code,
\* or no error) is returned unchanged on the attempt that received it, with
\* no sleep for it and no request after it.
C9_OtherPayloadReturnedAsIs ==
    pc = "fetch" =>
        \A j \in 1..requests :
            ~QuotaShape(script[j]) =>
                /\ j = requests
                /\ fetch_state = "returned"
                /\ data = script[j]
                /\ sleeps = j - 1

C9_Witness ==
    /\ pc = "fetch"
    /\ requests = 2
    /\ fetch_state = "returned"
    /\ data = ErrorPayload
    /\ sleeps = 1

--------------------------------------------------------------------------
(* Properties of get_playlist_ids (SpecOwner)                              *)

Occurrences(listing, c) ==
    Cardinality({k \in DOMAIN listing : listing[k]["creator"]["name"] = c})

\* ids is the ids of listing's entries created by owner, in listing order
IsOwnedSubsequence(ids, listing, owner) ==
    LET owned == {k \in DOMAIN listing : listing[k]["creator"]["name"] = owner}
    IN  /\ Len(ids) = Cardinality(owned)
        /\ \E f \in [DOMAIN ids -> owned] :
              /\ \A a, b \in DOMAIN ids : a < b => f[a] < f[b]
              /\ \A a \in DOMAIN ids : ids[a] = listing[f[a]]["id"]

\* C10: for a non-empty listing, get_playlist_ids returns exactly the ids of the
\* playlists of one creator, whose count no other creator's count exceeds, in
\* listing order.
C10_OwnedPlaylistsInOrder ==
    (pc = "loop" /\ playlist_list # <<>>) =>
        \E owner \in Creators :
            /\ Occurrences(playlist_list, owner) >= 1
            /\ \A c \in Creators :
                  Occurrences(playlist_list, c) <= Occurrences(playlist_list, owner)
            /\ IsOwnedSubsequence(playlists, playlist_list, owner)

C10_Witness ==
    /\ pc = "loop"
    /\ Len(playlist_list) = 3
    /\ playlist_list[1]["creator"]["name"] = "B"
    /\ playlist_list[2]["creator"]["name"] = "A"
    /\ playlist_list[3]["creator"]["name"] = "A"
    /\ playlists = <<playlist_list[2]["id"], playlist_list[3]["id"]>>

\* the creators whose count in the listing is the highest
TopCreators(listing) ==
    {c \in Creators : /\ Occurrences(listing, c) >= 1
                      /\ \A d \in Creators : Occurrences(listing, d) <= Occurrences(listing, c)}

\* the index of the first playlist of creator c in the listing
FirstPlaylist(listing, c) ==
    CHOOSE k \in DOMAIN listing :
        /\ listing[k]["creator"]["name"] = c
        /\ \A j \in 1..(k - 1) : listing[j]["creator"]["name"] # c

\* C17: when two or more creators tie for the highest count in the listing,
\* get_playlist_ids returns the playlists of the tied creator whose first
\* playlist appears earliest in the listing.
C17_TieGoesToEarliestCreator ==
    (pc = "loop" /\ playlist_list # <<>> /\ Cardinality(TopCreators(playlist_list)) >= 2) =>
        \E owner \in TopCreators(playlist_list) :
            /\ \A c \in TopCreators(playlist_list) :
                  FirstPlaylist(playlist_list, owner) <= FirstPlaylist(playlist_list, c)
            /\ IsOwnedSubsequence(playlists, playlist_list, owner)

\* B and A have two playlists each, B's first: B's playlists are returned
C17_Witness ==
    /\ pc = "loop"
    /\ Len(playlist_list) = 4
    /\ playlist_list[1]["creator"]["name"] = "B"
    /\ playlist_list[2]["creator"]["name"] = "A"
    /\ playlist_list[3]["creator"]["name"] = "A"
    /\ playlist_list[4]["creator"]["name"] = "B"
    /\ playlist_list[1]["id"] # playlist_list[2]["id"]
    /\ playlists = <<playlist_list[1]["id"], playlist_list[4]["id"]>>

====
